---- MODULE Spec2Model ----
(***************************************************************************)
(* Model of the doc_intelligence package: the instance-schema compiler     *)
(* (pydantic_to_json_instance_schema.py), the citation utilities           *)
(* (utils.py) and the parse / format / extract pipeline (formatter.py,     *)
(* extractor.py, processer.py).                                            *)
(*                                                                         *)
(* JSON-like values are records [k, v]: k is the Python type of the value  *)
(* ("dict", "list", "str", "int", "float", "bool", "null") and v its       *)
(* payload; a dict's payload is the sequence of its <<key, value>> items   *)
(* in insertion order.  An operation that raises is modelled by the value  *)
(* [k |-> "error", v |-> <exception class>].                               *)
(***************************************************************************)
EXTENDS Integers, Sequences, FiniteSets, TLC

VARIABLES
    models,          \* the model classes in scope: class name -> model_fields
    citation,        \* argument citation of pydantic_to_json_instance_schema
    citation_level,  \* argument citation_level
    schema,          \* value returned by pydantic_to_json_instance_schema
    plain,           \* the same model compiled with citation=False
    text,            \* value returned by stringify_schema (a token sequence)
    json_str,        \* the text schema_to_json made of the schema
    response,        \* decoded LLM response handed to the citation utilities
    stripped,        \* value returned by strip_citations
    enriched,        \* value returned by enrich_citations_with_bboxes
    document,        \* the Document object: content, include_citations, extraction_mode
    parsed,          \* the pages the parser produced for the document
    page_numbers,    \* the page_numbers argument of the last formatter call
    content_text,    \* the text the formatter made of the document
    outcome,         \* how the last call ended: returned, or the exception raised
    calls,           \* collaborator invocations: parser (all), LLM client (last
                     \* extract) and how many of its requests raised
    pc               \* position of the run; of a processor, its last operation

vars == <<models, citation, citation_level, schema, plain, text, json_str, response,
          stripped, enriched, document, parsed, page_numbers, content_text,
          outcome, calls, pc>>

\* the arguments and results of the compiler, of the citation utilities and
\* the state of the pipeline
compiler_vars == <<models, citation, citation_level, schema, plain, text, json_str>>
citation_vars == <<response, stripped, enriched>>
pipeline_vars == <<document, parsed, page_numbers, content_text, outcome, calls>>

-----------------------------------------------------------------------------
(* Bounds of the model *)

\* deepest nesting of Optional[...] / list[...] wrappers in a field annotation
MaxWrap == 2
\* most fields a generated model class declares
MaxFields == 2
\* depth of the Python call stack at which a call raises RecursionError
RecursionLimit == 4

-----------------------------------------------------------------------------
(* JSON-like values *)

StrV(s) == [k |-> "str", v |-> s]
IntV(n) == [k |-> "int", v |-> n]
ListV(items) == [k |-> "list", v |-> items]
DictV(items) == [k |-> "dict", v |-> items]
Null == [k |-> "null", v |-> ""]
Error(cls) == [k |-> "error", v |-> cls]
Unset == [k |-> "unset", v |-> ""]

IsDict(obj) == obj.k = "dict"
IsList(obj) == obj.k = "list"
IsStr(obj) == obj.k = "str"
IsError(obj) == obj.k = "error"

\* key in d
HasKey(d, key) == \E i \in 1..Len(d.v) : d.v[i][1] = key
\* d[key]
Get(d, key) == d.v[CHOOSE i \in 1..Len(d.v) : d.v[i][1] = key][2]
\* list(d.keys())
Keys(d) == [i \in 1..Len(d.v) |-> d.v[i][1]]
\* d[key] = val on an insertion-ordered dict
DictSet(d, key, val) ==
    IF HasKey(d, key)
    THEN DictV([i \in 1..Len(d.v) |->
                 IF d.v[i][1] = key THEN <<key, val>> ELSE d.v[i]])
    ELSE DictV(Append(d.v, <<key, val>>))

\* sep.join(parts) on strings
RECURSIVE StrJoin(_, _)
StrJoin(parts, sep) ==
    IF parts = <<>> THEN ""
    ELSE IF Len(parts) = 1 THEN parts[1]
    ELSE parts[1] \o sep \o StrJoin(Tail(parts), sep)

-----------------------------------------------------------------------------
(* Type annotations.  [k |-> "atom", v |-> c] is the class c,               *)
(* [k |-> "model", v |-> M] the BaseModel subclass M, "dict" stands for    *)
(* dict[K, V], [k |-> "opt", v |-> T] for Optional[T] = Union[T, None] and *)
(* [k |-> "list", v |-> T] for list[T].                                     *)

Atom(c) == [k |-> "atom", v |-> c]
Model(m) == [k |-> "model", v |-> m]
DictOf == [k |-> "dict", v |-> "kv"]
Opt(t) == [k |-> "opt", v |-> t]
ListOf(t) == [k |-> "list", v |-> t]
NoneType == Atom("NoneType")

\* typing.get_origin
get_origin(tp) ==
    CASE tp.k = "opt" -> "Union"
      [] tp.k = "list" -> "list"
      [] tp.k = "dict" -> "dict"
      [] OTHER -> "None"

\* typing.get_args
get_args(tp) ==
    CASE tp.k = "opt" -> <<tp.v, NoneType>>
      [] tp.k = "list" -> <<tp.v>>
      [] tp.k = "dict" -> <<Atom("str"), Atom("int")>>
      [] OTHER -> <<>>

non_none_args(tp) == SelectSeq(get_args(tp), LAMBDA arg : arg # NoneType)

\* isinstance(field_type, type) and issubclass(field_type, Enum)
EnumClasses == {"Color", "Level"}
IsEnumClass(tp) == tp.k = "atom" /\ tp.v \in EnumClasses
\* isinstance(field_type, type) and issubclass(field_type, BaseModel)
IsBaseModelClass(tp) == tp.k = "model"

type_map(tp) ==
    IF tp.k # "atom" THEN "string"
    ELSE CASE tp.v = "str" -> "string"
           [] tp.v = "int" -> "integer"
           [] tp.v = "float" -> "number"
           [] tp.v = "bool" -> "boolean"
           [] tp.v = "datetime" -> "string"
           [] tp.v = "date" -> "string"
           [] OTHER -> "string"

get_type_string_no_descent(field_type) ==
    IF get_origin(field_type) = "dict" THEN "object" ELSE type_map(field_type)

RECURSIVE get_type_string(_)
get_type_string(field_type) ==
    LET origin == get_origin(field_type) IN
    IF origin = "Union" /\ non_none_args(field_type) # <<>>
    THEN get_type_string(non_none_args(field_type)[1])
    ELSE IF origin = "list"
    THEN IF get_args(field_type) # <<>>
         THEN get_type_string(get_args(field_type)[1])
         ELSE "string"
    ELSE IF origin = "dict" THEN "object"
    ELSE IF IsEnumClass(field_type) THEN "string"
    ELSE type_map(field_type)

\* the annotation left after the Union step and the list step that
\* is_nested_model and get_nested_model_type share
UnwrapUnion(field_type) ==
    IF get_origin(field_type) = "Union" /\ non_none_args(field_type) # <<>>
    THEN non_none_args(field_type)[1]
    ELSE field_type

get_nested_model_type(field_type) ==
    LET ft == UnwrapUnion(field_type) IN
    IF get_origin(ft) = "list" /\ get_args(ft) # <<>>
    THEN get_args(ft)[1]
    ELSE ft

is_nested_model(field_type) ==
    IsBaseModelClass(get_nested_model_type(field_type))

is_list_type(field_type) == get_origin(UnwrapUnion(field_type)) = "list"

-----------------------------------------------------------------------------
(* pydantic FieldInfo and default values.  A default is PydanticUndefined,  *)
(* None ([k |-> "null"]), a str or int literal, or an Enum member           *)
(* [k |-> "enum", v |-> <<class, value>>]; the class Color mixes in str,    *)
(* the class Level does not.                                                *)

PydanticUndefined == [k |-> "undefined", v |-> ""]
EnumMember(cls, value) == [k |-> "enum", v |-> <<cls, value>>]
StrEnumClasses == {"Color"}

FieldInfo(name, annotation, description, examples, default, default_factory) ==
    [name |-> name, annotation |-> annotation, description |-> description,
     examples |-> examples, default |-> default,
     default_factory |-> default_factory]

\* a field declared as  name: annotation
Plain(name, annotation) ==
    FieldInfo(name, annotation, "", <<>>, PydanticUndefined, FALSE)

\* str(n) for the small integers used as defaults
IntToStr(n) ==
    LET digit == <<"0", "1", "2", "3", "4", "5", "6", "7", "8", "9">> IN
    IF n < 0 THEN "-" \o digit[1 - n] ELSE digit[n + 1]

\* format(v, "") of a str or int, as an f-string interpolates it
PyStr(val) == IF val.k = "int" THEN IntToStr(val.v) ELSE val.v

\* repr of a list of str, as an f-string interpolates examples
PyReprStrList(items) ==
    "[" \o StrJoin([i \in 1..Len(items) |-> "'" \o items[i] \o "'"], ", ") \o "]"

\* default == "factory"
EqualsFactory(default) ==
    \/ default.k = "str" /\ default.v = "factory"
    \/ default.k = "enum" /\ default.v[1] \in StrEnumClasses
                          /\ default.v[2] = "factory"

\* lines 198-206: the default the comment is built from
ResolveDefault(field_info) ==
    IF field_info.default.k # "undefined" /\ field_info.default.k # "null"
    THEN field_info.default
    ELSE IF field_info.default_factory
    THEN StrV("factory")
    ELSE Null

\* comment_parts with the default part put first
comment_parts_default_first(field_info) ==
    LET default == IF field_info.default.k \notin {"undefined", "null"}
                   THEN field_info.default
                   ELSE IF field_info.default_factory THEN StrV("factory") ELSE Null
    IN  (IF default.k # "null"
         THEN IF default.k = "enum" THEN <<"default: " \o default.v[2]>>
              ELSE IF default.k = "str" /\ default.v = "factory"
              THEN <<"default: []">>
              ELSE <<"default: " \o PyStr(default)>>
         ELSE <<>>)
        \o (IF field_info.description # ""
            THEN <<"desc: " \o field_info.description>> ELSE <<>>)
        \o (IF field_info.examples # <<>>
            THEN <<"examples: " \o PyReprStrList(field_info.examples)>> ELSE <<>>)

\* lines 222-236: comment_parts
comment_parts(field_info) ==
    LET default == ResolveDefault(field_info) IN
    (IF field_info.description # ""
     THEN <<"desc: " \o field_info.description>> ELSE <<>>)
    \o (IF field_info.examples # <<>>
        THEN <<"examples: " \o PyReprStrList(field_info.examples)>> ELSE <<>>)
    \o (IF default.k # "null"
        THEN IF EqualsFactory(default)
             THEN <<"default: []">>
             ELSE IF default.k = "enum"
             THEN <<"default: " \o default.v[2]>>
             ELSE <<"default: " \o PyStr(default)>>
        ELSE <<>>)

\* _citation_item_schema with the lines entry at every level
_citation_item_schema_with_lines(level) ==
    DictV(<< <<"page", StrV("<integer>")>>,
             <<"lines", ListV(<<StrV("<integer>")>>)>> >>)

_citation_item_schema(level) ==
    LET item == DictV(<< <<"page", StrV("<integer>")>> >>) IN
    IF level = "line"
    THEN DictSet(item, "lines", ListV(<<StrV("<integer>")>>))
    ELSE item

\* lines 219-249: the leaf emitted for a field that is not a nested model
LeafFor(field_info, level, cit) ==
    LET type_str == get_type_string(field_info.annotation)
        parts == comment_parts(field_info)
        comment == IF parts # <<>> THEN StrJoin(parts, " | ") ELSE ""
    IN  IF cit
        THEN DictV(<< <<"value", StrV("<" \o type_str \o ">")>>,
                      <<"comment", StrV(comment)>>,
                      <<"citations", ListV(<<_citation_item_schema(level)>>)>> >>)
        ELSE StrV("<" \o type_str \o ">")

RECURSIVE pydantic_to_json_instance_schema(_, _, _, _)
RECURSIVE FieldEntry(_, _, _, _)
RECURSIVE FieldLoop(_, _, _, _, _, _)

\* lines 208-249: the value stored under one field's name
FieldEntry(field_info, level, cit, depth) ==
    LET is_list == is_list_type(field_info.annotation) IN
    IF is_nested_model(field_info.annotation)
    THEN LET nested_type == get_nested_model_type(field_info.annotation)
             nested_schema ==
                 pydantic_to_json_instance_schema(nested_type.v, level, cit,
                                                  depth + 1)
         IN  IF IsError(nested_schema) THEN nested_schema
             ELSE IF is_list THEN ListV(<<nested_schema>>) ELSE nested_schema
    ELSE LET leaf == LeafFor(field_info, level, cit) IN
         IF is_list THEN ListV(<<leaf>>) ELSE leaf

\* line 193: for field_name, field_info in model.model_fields.items()
FieldLoop(fields, i, sch, level, cit, depth) ==
    IF i > Len(fields) THEN sch
    ELSE LET entry == FieldEntry(fields[i], level, cit, depth) IN
         IF IsError(entry) THEN entry
         ELSE FieldLoop(fields, i + 1, DictSet(sch, fields[i].name, entry),
                        level, cit, depth)

\* the call at stack depth `depth`; a call deeper than RecursionLimit raises
pydantic_to_json_instance_schema(model, level, cit, depth) ==
    IF depth > RecursionLimit THEN Error("RecursionError")
    ELSE FieldLoop(models[model], 1, DictV(<<>>), level, cit, depth)

-----------------------------------------------------------------------------
(* The model classes the compiler is run on *)

AtomClasses == {"str", "int", "float", "bool", "datetime", "date", "Color",
                "bytes"}
ModelClasses == {"Top", "Sub"}
BaseTypes ==
    {Atom(c) : c \in AtomClasses} \cup {DictOf}
        \cup {Model(m) : m \in ModelClasses}

\* annotations with at most n wrappers; Optional[Optional[T]] is Optional[T]
RECURSIVE Annotations(_)
Annotations(n) ==
    IF n = 0 THEN BaseTypes
    ELSE LET S == Annotations(n - 1) IN
         S \cup {ListOf(t) : t \in S} \cup {Opt(t) : t \in {u \in S : u.k # "opt"}}

FieldNames == {"a", "value", "citations"}
\* sequences of distinct field names, at most n long
NameSeqs(n) ==
    UNION {{s \in [1..len -> FieldNames] :
              \A i, j \in 1..len : i # j => s[i] # s[j]} : len \in 0..n}

StructTypes == {Atom("str"), ListOf(Atom("int")), Model("Sub"),
                ListOf(Model("Sub"))}

SubOfStr == <<Plain("a", Atom("str"))>>

\* one field of every annotation
TypeFamily ==
    {[Top |-> <<Plain("f", t)>>, Sub |-> SubOfStr] : t \in Annotations(MaxWrap)}

\* every choice of field names, in Top and in the nested model
NameFamily ==
    {[Top |-> [i \in 1..Len(names) |-> Plain(names[i], types[i])],
      Sub |-> [i \in 1..Len(subnames) |-> Plain(subnames[i], Atom("str"))]] :
        <<names, types, subnames>> \in
            {<<n, t, s>> \in NameSeqs(MaxFields)
                              \X (UNION {[1..len -> StructTypes] : len \in 0..MaxFields})
                              \X NameSeqs(MaxFields) :
                 Len(n) = Len(t) /\ Len(n) > 0}}

Defaults ==
    {PydanticUndefined, Null, StrV("x"), StrV("factory"), IntV(0),
     EnumMember("Color", "red"), EnumMember("Color", "factory"),
     EnumMember("Level", "factory")}

\* one leaf field with every choice of description, examples and default
MetaFamily ==
    {[Top |-> <<FieldInfo("f", t, d, e, dflt, fac)>>, Sub |-> SubOfStr] :
        <<t, d, e, dflt, fac>> \in
            {x \in {Atom("str"), ListOf(Atom("int"))} \X {"", "d"}
                   \X {<<>>, <<"x">>} \X Defaults \X BOOLEAN :
                 x[5] => x[4] = PydanticUndefined}}

\* model classes that declare a field named comment
CommentFamily ==
    {[Top |-> <<Plain("comment", t), Plain("a", u)>>,
      Sub |-> <<Plain("a", Atom("str")), Plain("comment", Atom("int"))>>] :
        t, u \in StructTypes}

Registries == TypeFamily \cup NameFamily \cup MetaFamily \cup CommentFamily

-----------------------------------------------------------------------------
(* stringify_schema.  A text is the sequence of its tokens: a double quote, *)
(* a single quote, a line break and a space are tokens of their own, and   *)
(* so is the content of every string written into the text.                *)

Q == "\""
SQ == "'"
NL == "\n"
\* parameter indent of stringify_schema
IndentWidth == 4

Placeholders == {"<string>", "<integer>", "<number>", "<boolean>", "<object>"}
\* s.startswith("<") and s.endswith(">"), on the strings a schema holds
AngleBracketed(s) == s \in Placeholders

\* " " * n
Spaces(n) == [i \in 1..n |-> " "]

\* sep.join(parts) on texts
RECURSIVE Join(_, _)
Join(parts, sep) ==
    IF parts = <<>> THEN <<>>
    ELSE IF Len(parts) = 1 THEN parts[1]
    ELSE parts[1] \o sep \o Join(Tail(parts), sep)

\* txt.split("\n")
RECURSIVE SplitLines(_)
SplitLines(txt) ==
    IF \A i \in 1..Len(txt) : txt[i] # NL THEN <<txt>>
    ELSE LET i == CHOOSE j \in 1..Len(txt) :
                      txt[j] = NL /\ \A h \in 1..(j - 1) : txt[h] # NL
         IN  <<SubSeq(txt, 1, i - 1)>> \o SplitLines(SubSeq(txt, i + 1, Len(txt)))

\* json.dumps(obj), default separators
RECURSIVE JsonDumps(_)
JsonDumps(obj) ==
    CASE IsDict(obj) ->
           <<"{">> \o Join([i \in 1..Len(obj.v) |->
                              <<Q, obj.v[i][1], Q, ":", " ">>
                                  \o JsonDumps(obj.v[i][2])], <<",", " ">>)
               \o <<"}">>
      [] IsList(obj) ->
           <<"[">> \o Join([i \in 1..Len(obj.v) |-> JsonDumps(obj.v[i])],
                           <<",", " ">>) \o <<"]">>
      [] obj.k = "int" -> <<IntToStr(obj.v)>>
      [] OTHER -> <<Q, obj.v, Q>>

\* repr(obj); the strings of a schema hold no quote character
RECURSIVE PyRepr(_)
PyRepr(obj) ==
    CASE IsDict(obj) ->
           <<"{">> \o Join([i \in 1..Len(obj.v) |->
                              <<SQ, obj.v[i][1], SQ, ":", " ">>
                                  \o PyRepr(obj.v[i][2])], <<",", " ">>)
               \o <<"}">>
      [] IsList(obj) ->
           <<"[">> \o Join([i \in 1..Len(obj.v) |-> PyRepr(obj.v[i])],
                           <<",", " ">>) \o <<"]">>
      [] obj.k = "int" -> <<IntToStr(obj.v)>>
      [] OTHER -> <<SQ, obj.v, SQ>>

\* f"{obj}": a str is written as it is, anything else by its repr
Interpolate(obj) == IF IsStr(obj) THEN <<obj.v>> ELSE PyRepr(obj)

\* bool(obj) of a str, list or dict
Truthy(obj) == IF IsStr(obj) THEN obj.v # "" ELSE obj.v # <<>>

\* txt.replace('"<integer>"', "<integer>")
RECURSIVE ReplaceQuotedInteger(_)
ReplaceQuotedInteger(txt) ==
    IF Len(txt) < 3 THEN txt
    ELSE IF txt[1] = Q /\ txt[2] = "<integer>" /\ txt[3] = Q
    THEN <<"<integer>">> \o ReplaceQuotedInteger(SubSeq(txt, 4, Len(txt)))
    ELSE <<txt[1]>> \o ReplaceQuotedInteger(Tail(txt))

\* json.dumps(txt) without the replace
KeepQuotedInteger(txt) == txt

\* lines 289-299 and 310-320: the value line and the citations line of a leaf
LeafLines(item, pad) ==
    LET comment == IF HasKey(item, "comment") THEN Get(item, "comment")
                   ELSE StrV("")
        comment_str == IF Truthy(comment)
                       THEN <<" ", " ", "#", " ">> \o Interpolate(comment)
                       ELSE <<>>
        citation_str == ReplaceQuotedInteger(JsonDumps(Get(item, "citations")))
    IN  << pad \o Spaces(4) \o <<Q, "value", Q, ":", " ">>
               \o Interpolate(Get(item, "value")) \o <<",">> \o comment_str,
           pad \o Spaces(4) \o <<Q, "citations", Q, ":", " ">> \o citation_str >>

RECURSIVE format_dict(_, _)
RECURSIVE FormatItems(_, _, _, _)

\* lines 273-343: the lines one item of d adds
ItemLines(key, value, is_last, level) ==
    LET indent_str == Spaces(IndentWidth * (level + 1))
        comma == IF ~is_last THEN <<",">> ELSE <<>>
    IN  IF IsList(value) /\ Len(value.v) = 1 /\ IsDict(value.v[1])
        THEN LET item == value.v[1]
                 inner_indent == Spaces(IndentWidth * (level + 2))
             IN  <<indent_str \o <<Q, key, Q, ":", " ", "[">>>>
                 \o (IF HasKey(item, "value") /\ HasKey(item, "citations")
                     THEN <<inner_indent \o <<"{">>>>
                          \o LeafLines(item, inner_indent)
                          \o <<inner_indent \o <<"}">>>>
                     ELSE LET nested_lines ==
                                  SplitLines(format_dict(item, level + 2))
                          IN  <<inner_indent \o nested_lines[1]>>
                              \o Tail(nested_lines))
                 \o <<indent_str \o <<"]">> \o comma>>
        ELSE IF IsDict(value)
        THEN IF HasKey(value, "value") /\ HasKey(value, "citations")
             THEN <<indent_str \o <<Q, key, Q, ":", " ", "{">>>>
                  \o LeafLines(value, indent_str)
                  \o <<indent_str \o <<"}">> \o comma>>
             ELSE <<indent_str \o <<Q, key, Q, ":", " ">>
                        \o format_dict(value, level + 1) \o comma>>
        ELSE IF IsList(value)
        THEN LET formatted ==
                     Join([i \in 1..Len(value.v) |->
                             IF IsStr(value.v[i]) /\ AngleBracketed(value.v[i].v)
                             THEN <<value.v[i].v>>
                             ELSE JsonDumps(value.v[i])], <<",", " ">>)
             IN  <<indent_str \o <<Q, key, Q, ":", " ", "[">> \o formatted
                       \o <<"]">> \o comma>>
        ELSE IF IsStr(value) /\ AngleBracketed(value.v)
        THEN <<indent_str \o <<Q, key, Q, ":", " ", value.v>> \o comma>>
        ELSE <<indent_str \o <<Q, key, Q, ":", " ">> \o JsonDumps(value)
                   \o comma>>

\* line 273: for i, (key, value) in enumerate(items)
FormatItems(d, i, lines, level) ==
    IF i > Len(d.v) THEN lines
    ELSE FormatItems(d, i + 1,
                     lines \o ItemLines(d.v[i][1], d.v[i][2], i = Len(d.v), level),
                     level)

format_dict(d, level) ==
    IF d.v = <<>> THEN <<"{", "}">>
    ELSE Join(FormatItems(d, 1, <<<<"{">>>>, level)
                  \o <<Spaces(IndentWidth * level) \o <<"}">>>>,
              <<NL>>)

stringify_schema(sch) == format_dict(sch, 0)

-----------------------------------------------------------------------------
(* schema_to_json, and json.loads of its text *)

\* parameter indent of schema_to_json
JsonIndent == 2

RECURSIVE clean_for_json(_)
clean_for_json(obj) ==
    IF IsDict(obj)
    THEN LET kept == IF HasKey(obj, "comment")
                     THEN SelectSeq(obj.v, LAMBDA item : item[1] # "comment")
                     ELSE obj.v
         IN  DictV([i \in 1..Len(kept) |-> <<kept[i][1], clean_for_json(kept[i][2])>>])
    ELSE IF IsList(obj)
    THEN ListV([i \in 1..Len(obj.v) |-> clean_for_json(obj.v[i])])
    ELSE obj

\* json.dumps(obj, indent=indent), for the value at nesting depth level
RECURSIVE JsonDumpsIndent(_, _, _)
JsonDumpsIndent(obj, indent, level) ==
    CASE IsDict(obj) ->
           IF obj.v = <<>> THEN <<"{", "}">>
           ELSE <<"{", NL>>
                \o Join([i \in 1..Len(obj.v) |->
                            Spaces(indent * (level + 1))
                                \o <<Q, obj.v[i][1], Q, ":", " ">>
                                \o JsonDumpsIndent(obj.v[i][2], indent, level + 1)],
                        <<",", NL>>)
                \o <<NL>> \o Spaces(indent * level) \o <<"}">>
      [] IsList(obj) ->
           IF obj.v = <<>> THEN <<"[", "]">>
           ELSE <<"[", NL>>
                \o Join([i \in 1..Len(obj.v) |->
                            Spaces(indent * (level + 1))
                                \o JsonDumpsIndent(obj.v[i], indent, level + 1)],
                        <<",", NL>>)
                \o <<NL>> \o Spaces(indent * level) \o <<"]">>
      [] obj.k = "int" -> <<IntToStr(obj.v)>>
      [] OTHER -> <<Q, obj.v, Q>>

schema_to_json(sch) == JsonDumpsIndent(clean_for_json(sch), JsonIndent, 0)

\* json.loads: the first token at or after i that is not white space
RECURSIVE SkipSpace(_, _)
SkipSpace(toks, i) ==
    IF i <= Len(toks) /\ toks[i] \in {" ", NL} THEN SkipSpace(toks, i + 1) ELSE i

\* the value that starts at token i and the position after it; the texts
\* decoded here hold objects, arrays and strings
RECURSIVE JsonValue(_, _)
RECURSIVE JsonMembers(_, _, _)
RECURSIVE JsonElements(_, _, _)
JsonValue(toks, i) ==
    LET j == SkipSpace(toks, i) IN
    CASE toks[j] = "{" ->
           LET k == SkipSpace(toks, j + 1) IN
           IF toks[k] = "}" THEN [v |-> DictV(<<>>), next |-> k + 1]
           ELSE JsonMembers(toks, k, <<>>)
      [] toks[j] = "[" ->
           LET k == SkipSpace(toks, j + 1) IN
           IF toks[k] = "]" THEN [v |-> ListV(<<>>), next |-> k + 1]
           ELSE JsonElements(toks, k, <<>>)
      [] OTHER -> [v |-> StrV(toks[j + 1]), next |-> j + 3]

\* the members of an object from the key at token i on
JsonMembers(toks, i, acc) ==
    LET colon == SkipSpace(toks, i + 3)
        val == JsonValue(toks, colon + 1)
        k == SkipSpace(toks, val.next)
        members == Append(acc, <<toks[i + 1], val.v>>)
    IN  IF toks[k] = ","
        THEN JsonMembers(toks, SkipSpace(toks, k + 1), members)
        ELSE [v |-> DictV(members), next |-> k + 1]

\* the elements of an array from the value at token i on
JsonElements(toks, i, acc) ==
    LET val == JsonValue(toks, i)
        k == SkipSpace(toks, val.next)
        elements == Append(acc, val.v)
    IN  IF toks[k] = ","
        THEN JsonElements(toks, k + 1, elements)
        ELSE [v |-> ListV(elements), next |-> k + 1]

json_loads(toks) == JsonValue(toks, 1).v

-----------------------------------------------------------------------------
(* utils.strip_citations *)

\* _is_value_citation_dict without the test len(obj) == 2
_is_value_citation_dict_any_size(obj) ==
    IsDict(obj) /\ HasKey(obj, "value") /\ HasKey(obj, "citations")

_is_value_citation_dict(obj) ==
    /\ IsDict(obj)
    /\ HasKey(obj, "value")
    /\ HasKey(obj, "citations")
    /\ Len(obj.v) = 2

RECURSIVE _strip(_)
_strip(obj) ==
    IF _is_value_citation_dict(obj) THEN Get(obj, "value")
    ELSE IF IsDict(obj)
    THEN DictV([i \in 1..Len(obj.v) |-> <<obj.v[i][1], _strip(obj.v[i][2])>>])
    ELSE IF IsList(obj)
    THEN ListV([i \in 1..Len(obj.v) |-> _strip(obj.v[i])])
    ELSE obj

strip_citations(resp) == _strip(resp)

-----------------------------------------------------------------------------
(* Parsed documents (schemas/pdf.py) and utils.enrich_citations_with_bboxes *)

\* most pages of a parsed PDF, most lines of a page
MaxPages == 2
MaxLines == 2

\* a float; the payload counts halves, so that 0.5 is FloatV(1), 1.0 FloatV(2)
FloatV(halves) == [k |-> "float", v |-> halves]
BoolV(b) == [k |-> "bool", v |-> b]

\* schemas/core.py BoundingBox, schemas/pdf.py Line, Page, PDF
BoundingBox(x0, top, x1, bottom) ==
    [x0 |-> x0, top |-> top, x1 |-> x1, bottom |-> bottom]
Line(txt, bounding_box) == [text |-> txt, bounding_box |-> bounding_box]
Page(lines) == [lines |-> lines, width |-> 600, height |-> 800]
NoContent == [k |-> "none", v |-> <<>>]
PDF(pages) == [k |-> "pdf", v |-> pages]

\* parser.DigitalPDFParser.parse: line i of page p of the file, its bounding
\* box normalised; the boxes of distinct lines differ
ParsedLine(p, i) ==
    Line("l" \o IntToStr(p) \o IntToStr(i), BoundingBox(p, i, p + 1, i + 1))
ParsedPages(line_counts) ==
    [p \in 1..Len(line_counts) |->
        Page([i \in 1..line_counts[p] |-> ParsedLine(p - 1, i - 1)])]
\* the PDFs a file may hold: every number of pages and lines per page
LineCounts == UNION {[1..n -> 0..MaxLines] : n \in 0..MaxPages}

\* BoundingBox.model_dump()
model_dump(bbox) ==
    DictV(<< <<"x0", FloatV(bbox.x0)>>, <<"top", FloatV(bbox.top)>>,
             <<"x1", FloatV(bbox.x1)>>, <<"bottom", FloatV(bbox.bottom)>> >>)

\* isinstance(x, int): bool is a subclass of int
IsIntInstance(x) == x.k \in {"int", "bool"}
\* the integer an int or bool counts as
AsInt(x) == IF x.k = "bool" THEN (IF x.v THEN 1 ELSE 0) ELSE x.v

_is_citation_dict(obj) ==
    /\ IsDict(obj)
    /\ HasKey(obj, "page")
    /\ HasKey(obj, "lines")
    /\ IsIntInstance(Get(obj, "page"))
    /\ IsList(Get(obj, "lines"))

\* the loop of lines 92-97 without the test line_idx >= 0, so that a
\* negative index counts from the end as list indexing does
RECURSIVE CollectBboxes_from_end(_, _, _, _)
CollectBboxes_from_end(line_indices, i, page, bboxes) ==
    IF i > Len(line_indices) THEN ListV(bboxes)
    ELSE LET line_idx == line_indices[i] IN
         IF ~IsIntInstance(line_idx) THEN Error("TypeError")
         ELSE LET n == AsInt(line_idx)
                  at == IF n < 0 THEN Len(page.lines) + n + 1 ELSE n + 1
              IN  IF at >= 1 /\ at <= Len(page.lines)
                  THEN CollectBboxes_from_end(line_indices, i + 1, page,
                           Append(bboxes, model_dump(page.lines[at].bounding_box)))
                  ELSE CollectBboxes_from_end(line_indices, i + 1, page, bboxes)

\* lines 92-97: the loop over line_indices from element i on; a comparison
\* of a str, None, list or dict with 0 and an index that is a float raise
\* TypeError
RECURSIVE CollectBboxes(_, _, _, _)
CollectBboxes(line_indices, i, page, bboxes) ==
    IF i > Len(line_indices) THEN ListV(bboxes)
    ELSE LET line_idx == line_indices[i] IN
         IF IsIntInstance(line_idx)
         THEN IF AsInt(line_idx) >= 0 /\ AsInt(line_idx) < Len(page.lines)
              THEN CollectBboxes(line_indices, i + 1, page,
                       Append(bboxes,
                              model_dump(page.lines[AsInt(line_idx) + 1].bounding_box)))
              ELSE CollectBboxes(line_indices, i + 1, page, bboxes)
         ELSE IF line_idx.k = "float"
         THEN IF line_idx.v >= 0 /\ line_idx.v < 2 * Len(page.lines)
              THEN Error("TypeError")
              ELSE CollectBboxes(line_indices, i + 1, page, bboxes)
         ELSE Error("TypeError")

\* _enrich_citation with only the upper bounds check of line 85, so that a
\* negative page counts from the end as list indexing does
_enrich_citation_from_end(cit, pages) ==
    LET page_idx == AsInt(Get(cit, "page"))
        line_indices == Get(cit, "lines").v
    IN  IF page_idx >= Len(pages) \/ page_idx < 0 - Len(pages) THEN cit
        ELSE LET at == IF page_idx < 0 THEN Len(pages) + page_idx + 1
                       ELSE page_idx + 1
                 bboxes == CollectBboxes(line_indices, 1, pages[at], <<>>)
                 kept == DictV(SelectSeq(cit.v, LAMBDA item : item[1] # "lines"))
             IN  IF IsError(bboxes) THEN bboxes
                 ELSE DictSet(kept, "bboxes", bboxes)

_enrich_citation(cit, pages) ==
    LET page_idx == AsInt(Get(cit, "page"))
        line_indices == Get(cit, "lines").v
    IN  IF page_idx < 0 \/ page_idx >= Len(pages) THEN cit
        ELSE LET bboxes == CollectBboxes(line_indices, 1, pages[page_idx + 1], <<>>)
                 kept == DictV(SelectSeq(cit.v, LAMBDA item : item[1] # "lines"))
             IN  IF IsError(bboxes) THEN bboxes
                 ELSE DictSet(kept, "bboxes", bboxes)

\* the first exception raised while the items of a comprehension are built
FirstError(items) ==
    items[CHOOSE i \in 1..Len(items) :
              IsError(items[i]) /\ \A j \in 1..(i - 1) : ~IsError(items[j])]

\* _traverse_and_enrich without the branch of lines 110-111: lists are
\* returned as they are
RECURSIVE _traverse_and_enrich_no_lists(_, _)
_traverse_and_enrich_no_lists(obj, pages) ==
    IF _is_citation_dict(obj) THEN _enrich_citation(obj, pages)
    ELSE IF IsDict(obj)
    THEN LET vals == [i \in 1..Len(obj.v) |->
                         _traverse_and_enrich_no_lists(obj.v[i][2], pages)]
         IN  IF \E i \in 1..Len(vals) : IsError(vals[i]) THEN FirstError(vals)
             ELSE DictV([i \in 1..Len(obj.v) |-> <<obj.v[i][1], vals[i]>>])
    ELSE obj

RECURSIVE _traverse_and_enrich(_, _)
_traverse_and_enrich(obj, pages) ==
    IF _is_citation_dict(obj) THEN _enrich_citation(obj, pages)
    ELSE IF IsDict(obj)
    THEN LET vals == [i \in 1..Len(obj.v) |->
                         _traverse_and_enrich(obj.v[i][2], pages)]
         IN  IF \E i \in 1..Len(vals) : IsError(vals[i]) THEN FirstError(vals)
             ELSE DictV([i \in 1..Len(obj.v) |-> <<obj.v[i][1], vals[i]>>])
    ELSE IF IsList(obj)
    THEN LET vals == [i \in 1..Len(obj.v) |->
                         _traverse_and_enrich(obj.v[i], pages)]
         IN  IF \E i \in 1..Len(vals) : IsError(vals[i]) THEN FirstError(vals)
             ELSE ListV(vals)
    ELSE obj

\* the tree holds a mapping that _is_citation_dict accepts
RECURSIVE holds_citation(_)
holds_citation(obj) ==
    IF _is_citation_dict(obj) THEN TRUE
    ELSE IF IsDict(obj) THEN \E i \in 1..Len(obj.v) : holds_citation(obj.v[i][2])
    ELSE IF IsList(obj) THEN \E i \in 1..Len(obj.v) : holds_citation(obj.v[i])
    ELSE FALSE

\* enrich_citations_with_bboxes with the test of lines 62-65 made only when
\* a citation is to be resolved
enrich_citations_with_bboxes_late_check(resp, doc) ==
    IF doc.content.k = "none"
    THEN IF holds_citation(resp) THEN Error("ValueError") ELSE resp
    ELSE _traverse_and_enrich(resp, doc.content.v)

enrich_citations_with_bboxes(resp, doc) ==
    IF doc.content.k = "none" THEN Error("ValueError")
    ELSE _traverse_and_enrich(resp, doc.content.v)

-----------------------------------------------------------------------------
(* The LLM's answer to a compiled schema.  The positions of the template   *)
(* are read off the two compilations of the same model: a position is a    *)
(* leaf where the citation=False schema holds a placeholder string.        *)

\* most items the LLM returns for a list field
MaxItems == 2

\* the value the LLM extracts for a leaf of the given placeholder
LeafValue(placeholder) ==
    CASE placeholder = "<integer>" -> IntV(7)
      [] placeholder = "<object>" -> DictV(<< <<"k", StrV("x")>> >>)
      [] OTHER -> StrV("x")

CitationValue == DictV(<< <<"page", IntV(0)>>, <<"lines", ListV(<<IntV(0)>>)>> >>)

\* the template p (citation=False) filled with values, n items per list
RECURSIVE Values(_, _)
Values(p, n) ==
    IF IsDict(p)
    THEN DictV([i \in 1..Len(p.v) |-> <<p.v[i][1], Values(p.v[i][2], n)>>])
    ELSE IF IsList(p)
    THEN ListV([i \in 1..n |-> Values(p.v[1], n)])
    ELSE LeafValue(p.v)

\* the same answer with every leaf value wrapped as the citation template
\* asks, each with the one citation cit
RECURSIVE FillWith(_, _, _)
FillWith(p, n, cit) ==
    IF IsDict(p)
    THEN DictV([i \in 1..Len(p.v) |-> <<p.v[i][1], FillWith(p.v[i][2], n, cit)>>])
    ELSE IF IsList(p)
    THEN ListV([i \in 1..n |-> FillWith(p.v[1], n, cit)])
    ELSE DictV(<< <<"value", LeafValue(p.v)>>, <<"citations", ListV(<<cit>>)>> >>)

Fill(p, n) == FillWith(p, n, CitationValue)

-----------------------------------------------------------------------------
(* Compiler runs: compile a model class, render it, let the LLM answer,    *)
(* strip the answer.                                                        *)

NoCalls == [parse |-> 0, llm |-> 0, failed |-> 0]

InitCompile ==
    /\ models \in Registries
    /\ citation \in BOOLEAN
    /\ citation_level \in {"page", "line"}
    /\ schema = Unset
    /\ plain = Unset
    /\ text = <<>>
    /\ json_str = <<>>
    /\ response = Unset
    /\ stripped = Unset
    /\ enriched = Unset
    /\ document = Unset
    /\ parsed = <<>>
    /\ page_numbers = Unset
    /\ content_text = <<>>
    /\ outcome = Unset
    /\ calls = NoCalls
    /\ pc = "start"

Compile ==
    /\ pc = "start"
    /\ schema' = pydantic_to_json_instance_schema("Top", citation_level,
                                                  citation, 1)
    /\ plain' = pydantic_to_json_instance_schema("Top", citation_level,
                                                 FALSE, 1)
    /\ pc' = "compiled"
    /\ UNCHANGED <<models, citation, citation_level, text, json_str,
                   citation_vars, pipeline_vars>>

Stringify ==
    /\ pc = "compiled"
    /\ ~IsError(schema)
    /\ text' = stringify_schema(schema)
    /\ pc' = "rendered"
    /\ UNCHANGED <<models, citation, citation_level, schema, plain, json_str,
                   citation_vars, pipeline_vars>>

Respond ==
    /\ pc = "rendered"
    /\ citation
    /\ \E n \in 0..MaxItems : response' = Fill(plain, n)
    /\ pc' = "responded"
    /\ UNCHANGED <<compiler_vars, stripped, enriched, pipeline_vars>>

Strip ==
    /\ pc = "responded"
    /\ stripped' = strip_citations(response)
    /\ pc' = "stripped"
    /\ UNCHANGED <<compiler_vars, response, enriched, pipeline_vars>>

SchemaToJson ==
    /\ pc = "compiled"
    /\ ~IsError(schema)
    /\ json_str' = schema_to_json(schema)
    /\ pc' = "dumped"
    /\ UNCHANGED <<models, citation, citation_level, schema, plain, text,
                   citation_vars, pipeline_vars>>

NextCompile == Compile \/ Stringify \/ SchemaToJson \/ Respond \/ Strip

SpecCompile == InitCompile /\ [][NextCompile]_vars

-----------------------------------------------------------------------------
(* Enrichment runs: a decoded response tree is enriched against a document  *)
(* and the result stripped, as extractor.extract does at lines 70-72.       *)

\* schemas/pdf.py PDFDocument(uri=...): the field defaults
PDFDocument ==
    [content |-> NoContent, include_citations |-> TRUE,
     extraction_mode |-> "single_pass"]

\* most elements of a lines list in a response
MaxRefs == 2

\* what a decoded response may hold where a line index is expected: negative,
\* valid, too large for every page, and not an int
LineElements ==
    {IntV(-1), IntV(0), IntV(1), IntV(MaxLines), BoolV(TRUE), FloatV(1),
     FloatV(2 * MaxLines), StrV("0"), Null}
LineLists == UNION {[1..n -> LineElements] : n \in 0..MaxRefs}
\* and where a page index is expected
PageValues ==
    {IntV(-1), IntV(0), IntV(1), IntV(MaxPages), BoolV(TRUE), FloatV(0),
     StrV("0"), Null}

Citation(page, lines) == DictV(<< <<"page", page>>, <<"lines", lines>> >>)
Wrapper(value, citations) ==
    DictV(<< <<"value", value>>, <<"citations", ListV(citations)>> >>)

\* response trees: a record with one cited field, each page value with each
\* lines list
CitedResponses ==
    {DictV(<< <<"name", Wrapper(StrV("x"), <<Citation(p, ListV(ls))>>)>> >>) :
        p \in PageValues, ls \in LineLists}
\* other positions and shapes of a citation in a tree
ShapedResponses ==
    LET good == Citation(IntV(0), ListV(<<IntV(0)>>))
        far == Citation(IntV(MaxPages), ListV(<<StrV("0")>>))
    IN  { good,
          DictV(<<>>),
          DictV(<< <<"lines", ListV(<<IntV(0)>>)>>, <<"page", IntV(0)>>,
                   <<"note", StrV("n")>> >>),
          DictV(<< <<"page", IntV(0)>>, <<"lines", StrV("0")>> >>),
          DictV(<< <<"page", IntV(0)>> >>),
          DictV(<< <<"page", IntV(0)>>, <<"lines", ListV(<<IntV(0)>>)>>,
                   <<"bboxes", StrV("old")>> >>),
          DictV(<< <<"items", ListV(<< Wrapper(IntV(7), <<good, far>>),
                                      Wrapper(IntV(7), <<>>) >>)>> >>),
          DictV(<< <<"sub", DictV(<< <<"name", Wrapper(StrV("x"), <<good>>)>> >>)>>,
                   <<"n", IntV(7)>> >>),
          DictV(<< <<"name", StrV("x")>> >>),
          DictV(<< <<"f", DictV(<< <<"value", StrV("x")>>, <<"comment", StrV("c")>>,
                                   <<"citations", ListV(<<good>>)>> >>)>> >>),
          DictV(<< <<"f", DictV(<< <<"value", Wrapper(StrV("x"), <<>>)>> >>)>> >>),
          DictV(<< <<"f", DictV(<< <<"citations", ListV(<<good>>)>> >>)>> >>),
          DictV(<< <<"f", Wrapper(Wrapper(StrV("x"), <<good>>), <<far>>)>> >>),
          DictV(<< <<"page", IntV(0)>>, <<"lines", ListV(<<IntV(0)>>)>>,
                   <<"note", good>> >>) }
Responses == CitedResponses \cup ShapedResponses

InitEnrich ==
    /\ models = [Top |-> <<>>, Sub |-> <<>>]
    /\ citation = TRUE
    /\ citation_level = "line"
    /\ schema = Unset
    /\ plain = Unset
    /\ text = <<>>
    /\ json_str = <<>>
    /\ response \in Responses
    /\ stripped = Unset
    /\ enriched = Unset
    /\ \E c \in {NoContent} \cup {PDF(ParsedPages(lc)) : lc \in LineCounts} :
          /\ document = [PDFDocument EXCEPT !.content = c]
          /\ parsed = c.v
    /\ page_numbers = Unset
    /\ content_text = <<>>
    /\ outcome = Unset
    /\ calls = NoCalls
    /\ pc = "start"

\* enrich_citations_with_bboxes writing the boxes into the citations of the
\* tree it was given
enrich_call_in_place(resp, doc) ==
    LET result == enrich_citations_with_bboxes(resp, doc) IN
    [response |-> IF IsError(result) THEN resp ELSE result,
     document |-> doc, result |-> result]

\* one call of enrich_citations_with_bboxes: its arguments as the call leaves
\* them, and what it returns or raises.  Lines 99-101 and 108-111 build new
\* dicts and lists and assign to none of the argument's
enrich_call(resp, doc) ==
    [response |-> resp, document |-> doc,
     result |-> enrich_citations_with_bboxes(resp, doc)]

\* one call of strip_citations, likewise (lines 152-160)
strip_call(resp) == [response |-> resp, result |-> strip_citations(resp)]

Enrich ==
    /\ pc = "start"
    /\ LET call == enrich_call(response, document) IN
       /\ response' = call.response
       /\ document' = call.document
       /\ enriched' = call.result
    /\ pc' = "enriched"
    /\ UNCHANGED <<compiler_vars, stripped, parsed, page_numbers, content_text,
                   outcome, calls>>

StripEnriched ==
    /\ pc = "enriched"
    /\ ~IsError(enriched)
    /\ LET call == strip_call(enriched) IN
       /\ enriched' = call.response
       /\ stripped' = call.result
    /\ pc' = "stripped"
    /\ UNCHANGED <<compiler_vars, response, pipeline_vars>>

NextEnrich == Enrich \/ StripEnriched

SpecEnrich == InitEnrich /\ [][NextEnrich]_vars

-----------------------------------------------------------------------------
(* formatter.DigitalPDFFormatter.  A page_numbers argument is None or a    *)
(* list of ints, ListV of the bare integers.                               *)

\* the values of types/pdf.py PDFExtractionMode
PDFExtractionModeValues == {"single_pass", "multi_pass"}

\* lines 48-52: the pages whose index is in page_numbers, from index
\* page_number on
RECURSIVE KeepPages(_, _, _)
KeepPages(pages, page_number, wanted) ==
    IF page_number >= Len(pages) THEN <<>>
    ELSE (IF page_number \in wanted THEN <<pages[page_number + 1]>> ELSE <<>>)
             \o KeepPages(pages, page_number + 1, wanted)

\* both branches of lines 56-62 calling _format_with_line_numbers
_format_always_numbered(pages, numbered) ==
    IF pages = <<>> THEN Error("ValueError")
    ELSE ListV([p \in 1..Len(pages) |->
             <<"<page number=", IntToStr(p - 1), ">", NL>>
                 \o Join([i \in 1..Len(pages[p].lines) |->
                             <<IntToStr(i - 1), ": ", pages[p].lines[i].text, NL>>],
                         <<>>)
                 \o <<"</page>">>])

\* _format_with_line_numbers (numbered) and _format_without_line_numbers
_format(pages, numbered) ==
    IF pages = <<>> THEN Error("ValueError")
    ELSE ListV([p \in 1..Len(pages) |->
             <<"<page number=", IntToStr(p - 1), ">", NL>>
                 \o Join([i \in 1..Len(pages[p].lines) |->
                             (IF numbered THEN <<IntToStr(i - 1), ": ">> ELSE <<>>)
                                 \o <<pages[p].lines[i].text, NL>>], <<>>)
                 \o <<"</page>">>])

\* format_document_for_llm with lines 48-52 selecting the pages into a list of
\* its own: the document keeps the pages it had
format_document_for_llm_on_copy(doc, pn) ==
    IF doc.content.k = "none"
    THEN [document |-> doc, result |-> Error("ValueError")]
    ELSE LET pages == doc.content.v
             kept == IF pn.k = "list" /\ pn.v # <<>> /\ pages # <<>>
                     THEN KeepPages(pages, 0, {pn.v[i] : i \in 1..Len(pn.v)})
                     ELSE pages
             paginated == _format(kept, doc.include_citations
                                        /\ doc.extraction_mode = "single_pass")
         IN  IF doc.extraction_mode = "multi_pass"
             THEN [document |-> doc, result |-> Error("NotImplementedError")]
             ELSE IF IsError(paginated)
             THEN [document |-> doc, result |-> paginated]
             ELSE [document |-> doc,
                   result |-> [k |-> "text", v |-> Join(paginated.v, <<NL, NL>>)]]

\* format_document_for_llm without the test of lines 54-55: a multi-pass
\* document is formatted as lines 56-62 format it
format_document_for_llm_without_mode_test(doc, pn) ==
    IF doc.content.k = "none"
    THEN [document |-> doc, result |-> Error("ValueError")]
    ELSE LET pages == doc.content.v
             kept == IF pn.k = "list" /\ pn.v # <<>> /\ pages # <<>>
                     THEN KeepPages(pages, 0, {pn.v[i] : i \in 1..Len(pn.v)})
                     ELSE pages
             after == [doc EXCEPT !.content = PDF(kept)]
             paginated == _format(kept, doc.include_citations
                                        /\ doc.extraction_mode = "single_pass")
         IN  IF IsError(paginated)
             THEN [document |-> after, result |-> paginated]
             ELSE [document |-> after,
                   result |-> [k |-> "text", v |-> Join(paginated.v, <<NL, NL>>)]]

\* the document as the call leaves it, and the text returned or the
\* exception raised
format_document_for_llm(doc, pn) ==
    IF doc.content.k = "none"
    THEN [document |-> doc, result |-> Error("ValueError")]
    ELSE LET pages == doc.content.v
             kept == IF pn.k = "list" /\ pn.v # <<>> /\ pages # <<>>
                     THEN KeepPages(pages, 0, {pn.v[i] : i \in 1..Len(pn.v)})
                     ELSE pages
             after == [doc EXCEPT !.content = PDF(kept)]
             paginated == _format(kept, doc.include_citations
                                        /\ doc.extraction_mode = "single_pass")
         IN  IF doc.extraction_mode = "multi_pass"
             THEN [document |-> after, result |-> Error("NotImplementedError")]
             ELSE IF IsError(paginated)
             THEN [document |-> after, result |-> paginated]
             ELSE [document |-> after,
                   result |-> [k |-> "text", v |-> Join(paginated.v, <<NL, NL>>)]]

-----------------------------------------------------------------------------
(* processer.DocumentProcessor and extractor.DigitalPDFExtractor: one       *)
(* processor over one file, called any number of times.  The prompt text    *)
(* made of the schema goes to the LLM only and is not part of the state.    *)

\* llm.py: stop_after_attempt(3)
MaxAttempts == 3
\* most page numbers in a page_numbers argument, and most explicit parses
MaxPageArgs == 1
MaxParses == 2

\* the response_format class of the extractions
PipelineModels ==
    [Top |-> <<Plain("name", Atom("str")), Plain("ids", ListOf(Atom("int")))>>,
     Sub |-> SubOfStr]

\* the files a processor is made for: one without pages and one of full size
Files == {ParsedPages([p \in 1..n |-> MaxLines]) : n \in {0, MaxPages}}

\* the page_numbers lists: page indices of the file and one past them
PageNumberArgs ==
    {ListV(pn) : pn \in UNION {[1..n -> 0..MaxPages] : n \in 1..MaxPageArgs}}

\* config["extraction_config"]: a key that is absent is Unset; the dict is
\* falsy when every key is absent
ExtractionConfigs ==
    [include_citations : {Unset, BoolV(TRUE), BoolV(FALSE)},
     extraction_mode : {Unset, StrV("single_pass"), StrV("multi_pass"), StrV("bogus")},
     page_numbers : {Unset} \cup PageNumberArgs]
NoExtractionConfig ==
    [include_citations |-> Unset, extraction_mode |-> Unset, page_numbers |-> Unset]
\* the configs: response_format is absent ("none"), an object that is not
\* a class, a class that is no BaseModel, or the model class Top
Configs ==
    {[keys_valid |-> kv, response_format |-> rf, extraction_config |-> NoExtractionConfig] :
        kv \in BOOLEAN, rf \in {"none", "not_class", "not_model", "Top"}}
    \cup {[keys_valid |-> TRUE, response_format |-> "Top", extraction_config |-> ec] :
             ec \in ExtractionConfigs}

\* the documents a processor is constructed with (processer.py lines 26-31):
\* PDFDocument(uri=...) and PDFDocument(uri=..., extraction_mode=...)
Documents ==
    {[PDFDocument EXCEPT !.extraction_mode = mode] : mode \in PDFExtractionModeValues}

\* processer.py lines 69-92 raise nothing for the config: the call reaches
\* extractor.extract at line 103
Validated(cfg) ==
    LET ec == cfg.extraction_config IN
    /\ cfg.keys_valid
    /\ cfg.response_format = "Top"
    /\ (ec # NoExtractionConfig /\ ec.extraction_mode.k # "unset") =>
           ec.extraction_mode.v \in PDFExtractionModeValues

\* the citation=False schema of PipelineModels.Top
PipelineTemplate ==
    DictV(<< <<"name", StrV("<string>")>>, <<"ids", ListV(<<StrV("<integer>")>>)>> >>)
\* what the LLM's text decodes to: an answer to the plain template or to the
\* citing one, the latter also with a line index that is a string, or no
\* JSON at all
PlainAnswer == Values(PipelineTemplate, 1)
Answers ==
    {PlainAnswer,
     FillWith(PipelineTemplate, 1, Citation(IntV(1), ListV(<<IntV(1), IntV(0)>>))),
     FillWith(PipelineTemplate, 1, Citation(IntV(0), ListV(<<StrV("0")>>))),
     Error("OutputParserException")}
\* the client requests that raise before one returns, and what that one
\* returns: after a request that raised, a text that decodes or one that
\* does not; with MaxAttempts failures none returns
LLMBehaviours ==
    [failures : {0}, answer : Answers]
        \cup [failures : 1..(MaxAttempts - 1),
              answer : {PlainAnswer, Error("OutputParserException")}]
        \cup [failures : {MaxAttempts}, answer : {PlainAnswer}]

\* pydantic validation of a decoded value against an annotation
RECURSIVE Validates(_, _)
Validates(value, t) ==
    CASE t.k = "opt" -> value.k = "null" \/ Validates(value, t.v)
      [] t.k = "list" ->
           IsList(value) /\ \A i \in 1..Len(value.v) : Validates(value.v[i], t.v)
      [] t.k = "model" ->
           /\ IsDict(value)
           /\ \A i \in 1..Len(models[t.v]) :
                  LET f == models[t.v][i] IN
                  IF HasKey(value, f.name)
                  THEN Validates(Get(value, f.name), f.annotation)
                  ELSE f.default # PydanticUndefined \/ f.default_factory
      [] t.k = "atom" /\ t.v = "str" -> IsStr(value)
      [] t.k = "atom" /\ t.v = "int" -> value.k = "int"
      [] OTHER -> ~IsDict(value) /\ ~IsList(value)

Returned == [k |-> "returned", v |-> ""]

\* one extract call on the document doc: the document as the call leaves it,
\* the parser and client invocations, the call's locals and how it ended
Call(doc) ==
    [document |-> doc, parse |-> 0, llm |-> 0, failed |-> 0, page_numbers |-> Unset,
     schema |-> Unset, content_text |-> <<>>, response |-> Unset,
     enriched |-> Unset, stripped |-> Unset, outcome |-> Returned]
Raise(r, cls) == [r EXCEPT !.outcome = Error(cls)]

\* lines 70-72 in the other order: the decoded response is stripped, and
\* what is left of it enriched
Decode_strip_first(doc, r, answer) ==
    IF IsError(answer) THEN [r EXCEPT !.outcome = answer]
    ELSE LET got == [r EXCEPT !.response = answer] IN
         IF doc.include_citations
         THEN LET response_dict == strip_citations(answer)
                  response_metadata == enrich_citations_with_bboxes(response_dict, doc)
              IN  IF IsError(response_metadata)
                  THEN [got EXCEPT !.outcome = response_metadata]
                  ELSE LET done == [got EXCEPT !.enriched = response_metadata,
                                               !.stripped = response_dict]
                       IN  IF ~IsDict(response_dict)
                           THEN [done EXCEPT !.outcome = Error("TypeError")]
                           ELSE IF ~Validates(response_dict, Model("Top"))
                           THEN [done EXCEPT !.outcome = Error("ValidationError")]
                           ELSE done
         ELSE LET done == [got EXCEPT !.enriched = Null, !.stripped = answer] IN
              IF ~IsDict(answer) THEN [done EXCEPT !.outcome = Error("TypeError")]
              ELSE IF ~Validates(answer, Model("Top"))
              THEN [done EXCEPT !.outcome = Error("ValidationError")]
              ELSE done

\* extractor.py lines 68-76: from the LLM's text to the return value
Decode(doc, r, answer) ==
    IF IsError(answer) THEN [r EXCEPT !.outcome = answer]
    ELSE LET got == [r EXCEPT !.response = answer] IN
         IF doc.include_citations
         THEN LET response_metadata == enrich_citations_with_bboxes(answer, doc) IN
              IF IsError(response_metadata)
              THEN [got EXCEPT !.outcome = response_metadata]
              ELSE LET response_dict == strip_citations(response_metadata)
                       done == [got EXCEPT !.enriched = response_metadata,
                                           !.stripped = response_dict]
                   IN  IF ~IsDict(response_dict)
                       THEN [done EXCEPT !.outcome = Error("TypeError")]
                       ELSE IF ~Validates(response_dict, Model("Top"))
                       THEN [done EXCEPT !.outcome = Error("ValidationError")]
                       ELSE done
         ELSE LET done == [got EXCEPT !.enriched = Null, !.stripped = answer] IN
              IF ~IsDict(answer) THEN [done EXCEPT !.outcome = Error("TypeError")]
              ELSE IF ~Validates(answer, Model("Top"))
              THEN [done EXCEPT !.outcome = Error("ValidationError")]
              ELSE done

\* extract with the parse of line 101 made on every call
Prepare_always_parsing(doc, cfg) ==
    LET r == Call(doc)
        ec == cfg.extraction_config
        given == ec # NoExtractionConfig
        include_citations ==
            IF given /\ ec.include_citations.k # "unset"
            THEN ec.include_citations.v ELSE doc.include_citations
        extraction_mode ==
            IF given /\ ec.extraction_mode.k # "unset"
            THEN ec.extraction_mode.v ELSE doc.extraction_mode
        pn == IF given /\ ec.page_numbers.k # "unset" THEN ec.page_numbers ELSE Null
        cited == [doc EXCEPT !.include_citations = include_citations]
    IN  IF ~cfg.keys_valid THEN Raise(r, "ValueError")
        ELSE IF cfg.response_format = "none" THEN Raise(r, "ValueError")
        ELSE IF cfg.response_format = "not_class" THEN Raise(r, "TypeError")
        ELSE IF cfg.response_format = "not_model" THEN Raise(r, "ValueError")
        ELSE IF extraction_mode \notin PDFExtractionModeValues
        THEN Raise([r EXCEPT !.document = cited], "ValueError")
        ELSE
        LET moded == [cited EXCEPT !.extraction_mode = extraction_mode]
            auto == TRUE
            ready == IF auto THEN [moded EXCEPT !.content = PDF(parsed)] ELSE moded
            r1 == [r EXCEPT !.document = ready, !.parse = IF auto THEN 1 ELSE 0,
                            !.page_numbers = pn]
        IN  IF extraction_mode = "multi_pass" THEN Raise(r1, "NotImplementedError")
            ELSE
            LET json_instance_schema ==
                    pydantic_to_json_instance_schema("Top", "line",
                                                     ready.include_citations, 1)
                r2 == [r1 EXCEPT !.schema = json_instance_schema]
            IN  IF IsError(json_instance_schema)
                THEN [r2 EXCEPT !.outcome = json_instance_schema]
                ELSE
                LET f == format_document_for_llm(ready, pn)
                    r3 == [r2 EXCEPT !.document = f.document]
                IN  IF IsError(f.result) THEN [r3 EXCEPT !.outcome = f.result]
                    ELSE [r3 EXCEPT !.content_text = f.result.v]

\* processer.py lines 69-101 and extractor.py lines 40-53: the call up to
\* the LLM request
Prepare(doc, cfg) ==
    LET r == Call(doc)
        ec == cfg.extraction_config
        given == ec # NoExtractionConfig
        include_citations ==
            IF given /\ ec.include_citations.k # "unset"
            THEN ec.include_citations.v ELSE doc.include_citations
        extraction_mode ==
            IF given /\ ec.extraction_mode.k # "unset"
            THEN ec.extraction_mode.v ELSE doc.extraction_mode
        pn == IF given /\ ec.page_numbers.k # "unset" THEN ec.page_numbers ELSE Null
        cited == [doc EXCEPT !.include_citations = include_citations]
    IN  IF ~cfg.keys_valid THEN Raise(r, "ValueError")
        ELSE IF cfg.response_format = "none" THEN Raise(r, "ValueError")
        ELSE IF cfg.response_format = "not_class" THEN Raise(r, "TypeError")
        ELSE IF cfg.response_format = "not_model" THEN Raise(r, "ValueError")
        ELSE IF extraction_mode \notin PDFExtractionModeValues
        THEN Raise([r EXCEPT !.document = cited], "ValueError")
        ELSE
        LET moded == [cited EXCEPT !.extraction_mode = extraction_mode]
            auto == moded.content.k = "none"
            ready == IF auto THEN [moded EXCEPT !.content = PDF(parsed)] ELSE moded
            r1 == [r EXCEPT !.document = ready, !.parse = IF auto THEN 1 ELSE 0,
                            !.page_numbers = pn]
        IN  IF extraction_mode = "multi_pass" THEN Raise(r1, "NotImplementedError")
            ELSE
            LET json_instance_schema ==
                    pydantic_to_json_instance_schema("Top", "line",
                                                     ready.include_citations, 1)
                r2 == [r1 EXCEPT !.schema = json_instance_schema]
            IN  IF IsError(json_instance_schema)
                THEN [r2 EXCEPT !.outcome = json_instance_schema]
                ELSE
                LET f == format_document_for_llm(ready, pn)
                    r3 == [r2 EXCEPT !.document = f.document]
                IN  IF IsError(f.result) THEN [r3 EXCEPT !.outcome = f.result]
                    ELSE [r3 EXCEPT !.content_text = f.result.v]

\* extract with lines 59-76 all under the retry: a failure after the client
\* returned makes one more request
Finish_retrying_decode(r, llm) ==
    IF llm.failures >= MaxAttempts
    THEN Raise([r EXCEPT !.llm = MaxAttempts, !.failed = MaxAttempts], "RetryError")
    ELSE LET done == Decode(r.document,
                            [r EXCEPT !.llm = llm.failures + 1,
                                      !.failed = llm.failures],
                            llm.answer)
         IN  IF IsError(done.outcome) /\ done.llm < MaxAttempts
             THEN [done EXCEPT !.llm = @ + 1]
             ELSE done

\* llm.py generate_text under @retry(stop=stop_after_attempt(3)), then the
\* rest of extractor.extract
Finish(r, llm) ==
    IF llm.failures >= MaxAttempts
    THEN Raise([r EXCEPT !.llm = MaxAttempts, !.failed = MaxAttempts], "RetryError")
    ELSE Decode(r.document,
                [r EXCEPT !.llm = llm.failures + 1, !.failed = llm.failures],
                llm.answer)

Min(a, b) == IF a < b THEN a ELSE b

\* the state after the call r
Settle(r) ==
    /\ document' = r.document
    /\ calls' = [parse |-> Min(calls.parse + r.parse, MaxParses), llm |-> r.llm,
                 failed |-> r.failed]
    /\ page_numbers' = r.page_numbers
    /\ schema' = r.schema
    /\ content_text' = r.content_text
    /\ response' = r.response
    /\ enriched' = r.enriched
    /\ stripped' = r.stripped
    /\ outcome' = r.outcome

Init ==
    /\ models = PipelineModels
    /\ citation = TRUE
    /\ citation_level = "line"
    /\ schema = Unset
    /\ plain = Unset
    /\ text = <<>>
    /\ json_str = <<>>
    /\ response = Unset
    /\ stripped = Unset
    /\ enriched = Unset
    /\ document \in Documents
    /\ parsed \in Files
    /\ page_numbers = Unset
    /\ content_text = <<>>
    /\ outcome = Unset
    /\ calls = NoCalls
    /\ pc = "processor"

\* DocumentProcessor.parse
Parse ==
    /\ calls.parse < MaxParses
    /\ document' = [document EXCEPT !.content = PDF(parsed)]
    /\ calls' = [calls EXCEPT !.parse = @ + 1]
    /\ outcome' = Returned
    /\ pc' = "parse"
    /\ UNCHANGED <<compiler_vars, citation_vars, parsed, page_numbers,
                   content_text>>

\* DigitalPDFFormatter.format_document_for_llm(document, page_numbers=pn)
Format ==
    \E pn \in {Null} \cup PageNumberArgs :
        LET f == format_document_for_llm(document, pn) IN
        /\ document' = f.document
        /\ page_numbers' = pn
        /\ content_text' = IF IsError(f.result) THEN <<>> ELSE f.result.v
        /\ outcome' = IF IsError(f.result) THEN f.result ELSE Returned
        /\ pc' = "format"
        /\ UNCHANGED <<compiler_vars, citation_vars, parsed, calls>>

\* DocumentProcessor.extract(config)
ExtractWith(cfg) ==
    LET r == Prepare(document, cfg) IN
    /\ IF IsError(r.outcome) THEN Settle(r)
       ELSE \E llm \in LLMBehaviours : Settle(Finish(r, llm))
    /\ pc' = IF Validated(cfg) THEN "extract" ELSE "reject"
    /\ UNCHANGED <<models, citation, citation_level, plain, text, json_str,
                   parsed>>
Extract == \E cfg \in Configs : ExtractWith(cfg)

\* enrich_citations_with_bboxes(response, document), called directly
EnrichCall ==
    \E answer \in Answers :
        /\ ~IsError(answer)
        /\ LET result == enrich_citations_with_bboxes(answer, document) IN
           /\ response' = answer
           /\ enriched' = IF IsError(result) THEN Unset ELSE result
           /\ outcome' = IF IsError(result) THEN result ELSE Returned
        /\ pc' = "enrich"
        /\ UNCHANGED <<compiler_vars, stripped, document, parsed, page_numbers,
                       content_text, calls>>

Next == Parse \/ Format \/ Extract \/ EnrichCall

Spec == Init /\ [][Next]_vars

-----------------------------------------------------------------------------
(* What the claims say about the compiler, in terms of the declared model   *)
(* classes.                                                                 *)

\* the type a field annotation holds inside all its Optional and list wrappers
RECURSIVE Core(_)
Core(t) == IF t.k \in {"opt", "list"} THEN Core(t.v) ELSE t

\* the field is list-typed: a list, or an Optional list
ListTyped(t) == (IF t.k = "opt" THEN t.v ELSE t).k = "list"

\* the placeholder kind the fixed table gives a type that is not wrapped
TableKind(t) ==
    CASE t.k = "dict" -> "object"
      [] t.k = "atom" /\ t.v = "int" -> "integer"
      [] t.k = "atom" /\ t.v = "float" -> "number"
      [] t.k = "atom" /\ t.v = "bool" -> "boolean"
      [] OTHER -> "string"

\* the template element of a field's entry: the entry, or the one element of
\* the list that holds it
Element(entry) == IF IsList(entry) /\ Len(entry.v) = 1 THEN entry.v[1] ELSE entry

Compiled == pc # "start" /\ ~IsError(schema)

\* C1: for every model and every answer that fills the citation=True schema,
\* strip_citations returns the answer's values in the shape of the
\* citation=False schema: every wrapper replaced by its value, every record
\* and list kept.
C1_StripRecoversValues ==
    pc = "stripped" =>
        \E n \in 0..MaxItems :
            response = Fill(plain, n) /\ stripped = Values(plain, n)

\* C3: the text stringify_schema returns never holds a placeholder token
\* right after a double quote.
C3_NoQuotedPlaceholder ==
    pc \in {"rendered", "responded", "stripped"} =>
        \A i \in 2..Len(text) : text[i] \in Placeholders => text[i - 1] # Q

\* C5: a field whose annotation holds a model class inside any nesting of
\* Optional and list wrappers is compiled to that class's schema, in a
\* one-element list iff the field is list-typed, never to a leaf.
C5_WrappedModelIsNested ==
    Compiled =>
        \A i \in 1..Len(models.Top) :
            LET t == models.Top[i].annotation
                nested == pydantic_to_json_instance_schema(
                              Core(t).v, citation_level, citation, 2)
            IN  (Core(t).k = "model" /\ ~IsError(nested)) =>
                    Get(schema, models.Top[i].name) =
                        IF ListTyped(t) THEN ListV(<<nested>>) ELSE nested

\* node has exactly the fields of the model class, in the declared order,
\* and every field that holds a model class maps to a node that has that
\* class's fields, recursively
RECURSIVE Isomorphic(_, _)
Isomorphic(node, model) ==
    /\ IsDict(node)
    /\ Keys(node) = [i \in 1..Len(models[model]) |-> models[model][i].name]
    /\ \A i \in 1..Len(models[model]) :
           LET t == models[model][i].annotation
               inner == IF ListTyped(t) THEN Element(node.v[i][2])
                        ELSE node.v[i][2]
           IN  Core(t).k = "model" =>
                   /\ ListTyped(t) => IsList(node.v[i][2])
                   /\ IsDict(inner)
                   /\ Isomorphic(inner, Core(t).v)

\* C6: the compiled schema is isomorphic to the model class, for both
\* citation settings.
C6_SchemaIsomorphic ==
    Compiled => Isomorphic(schema, "Top") /\ Isomorphic(plain, "Top")

\* node is the citation=False template of the model class: its leaves are
\* the primitive fields, each a bare placeholder, list-typed fields are
\* one-element lists and fields holding a model class are mappings
RECURSIVE PlainTemplate(_, _)
PlainTemplate(node, model) ==
    /\ IsDict(node)
    /\ Keys(node) = [i \in 1..Len(models[model]) |-> models[model][i].name]
    /\ \A i \in 1..Len(models[model]) :
           LET t == models[model][i].annotation
               entry == node.v[i][2]
               inner == IF ListTyped(t) THEN Element(entry) ELSE entry
           IN  /\ ListTyped(t) => IsList(entry) /\ Len(entry.v) = 1
               /\ IF Core(t).k = "model"
                  THEN IsDict(inner) /\ PlainTemplate(inner, Core(t).v)
                  ELSE IsStr(inner) /\ inner.v \in Placeholders

\* C7: with citation disabled the output's leaves are exactly the primitive
\* field paths, each a bare placeholder; lists hold one template element and
\* nested records stay mappings.
C7_PlainLeavesArePrimitiveFields ==
    (pc # "start" /\ ~IsError(plain)) => PlainTemplate(plain, "Top")

C9_CompileIsTotal == pc # "start" => ~IsError(schema)

\* the default part the claim gives a field
ExpectedDefaultPart(field_info) ==
    IF field_info.default_factory THEN "default: []"
    ELSE IF field_info.default.k = "enum"
    THEN "default: " \o field_info.default.v[2]
    ELSE IF field_info.default.k \in {"str", "int"}
    THEN "default: " \o PyStr(field_info.default)
    ELSE ""

\* C10: the default part of a leaf's comment is "default: []" exactly for a
\* default factory, the underlying value for an Enum default, the value
\* itself for any other literal default, and absent without a default.
C10_DefaultPart ==
    (Compiled /\ citation) =>
        \A i \in 1..Len(models.Top) :
            LET fi == models.Top[i]
                leaf == Element(Get(schema, fi.name))
            IN  (Core(fi.annotation).k # "model" /\ fi.description = ""
                    /\ fi.examples = <<>>) =>
                    Get(leaf, "comment") = StrV(ExpectedDefaultPart(fi))

-----------------------------------------------------------------------------
(* What the claims say about enrichment and the pipeline.                   *)

\* C4: enrich_citations_with_bboxes on a parsed document returns a value for
\* every decoded response tree, whatever the page value and the elements of
\* the lines lists; the only error is the ValueError raised when
\* document.content is None.
C4_EnrichRaisesOnlyOnNoContent ==
    pc \in {"enriched", "stripped"} =>
        /\ IsError(enriched) <=> document.content.k = "none"
        /\ IsError(enriched) => enriched = Error("ValueError")

\* C2: after parse no call of the pipeline changes the parsed document:
\* whatever format, extract and enrich calls were made, document.content.pages
\* is what the parser produced.
C2_ParsedDocumentUnchanged ==
    document.content.k = "pdf" => document.content.v = parsed

-----------------------------------------------------------------------------
(* What the claims say about comments, citation templates and               *)
(* schema_to_json.                                                          *)

\* the texts a default is rendered as
DefaultTexts ==
    {"[]"} \cup {IF d.k = "enum" THEN d.v[2] ELSE PyStr(d) :
                    d \in Defaults \ {PydanticUndefined, Null}}

\* comment is made of the field's present parts, in the order desc,
\* examples, default, joined by " | "
CommentOf(field_info, comment) ==
    LET head == (IF field_info.description # ""
                 THEN <<"desc: " \o field_info.description>> ELSE <<>>)
                \o (IF field_info.examples # <<>>
                    THEN <<"examples: " \o PyReprStrList(field_info.examples)>>
                    ELSE <<>>)
    IN  IF field_info.default_factory
           \/ field_info.default.k \notin {"undefined", "null"}
        THEN \E r \in DefaultTexts :
                 comment = StrJoin(head \o <<"default: " \o r>>, " | ")
        ELSE comment = StrJoin(head, " | ")

\* C11: the comment of a composite leaf is the present parts among
\* "desc: ...", "examples: ...", "default: ...", in that order, joined by
\* " | ", and the empty string when the field has none of them.
C11_CommentJoinsPresentParts ==
    (Compiled /\ citation) =>
        \A i \in 1..Len(models.Top) :
            LET fi == models.Top[i]
                leaf == Element(Get(schema, fi.name))
            IN  Core(fi.annotation).k # "model" =>
                    /\ IsDict(leaf) /\ HasKey(leaf, "comment")
                    /\ IsStr(Get(leaf, "comment"))
                    /\ CommentOf(fi, Get(leaf, "comment").v)

C11_Witness ==
    /\ pc = "compiled"
    /\ citation
    /\ models.Top = <<FieldInfo("f", Atom("str"), "d", <<"x">>, StrV("x"), FALSE)>>
    /\ Get(Get(schema, "f"), "comment")
           = StrV("desc: d | examples: ['x'] | default: x")

\* leaf is a composite leaf: exactly the keys value, comment and citations,
\* citations a list of one item with the key page, and lines iff the level
\* is "line"
CompositeLeaf(leaf, level) ==
    /\ IsDict(leaf)
    /\ Keys(leaf) = <<"value", "comment", "citations">>
    /\ IsList(Get(leaf, "citations"))
    /\ Len(Get(leaf, "citations").v) = 1
    /\ LET item == Get(leaf, "citations").v[1] IN
       /\ IsDict(item)
       /\ Keys(item) = IF level = "line" THEN <<"page", "lines">> ELSE <<"page">>

\* every leaf of the schema node of a model class is a composite leaf; a
\* field holding a model class is followed into that class's record
RECURSIVE CitedLeaves(_, _, _)
CitedLeaves(node, model, level) ==
    \A i \in 1..Len(models[model]) :
        LET t == models[model][i].annotation
            inner == Element(Get(node, models[model][i].name))
        IN  IF Core(t).k = "model" /\ IsDict(inner)
                /\ Keys(inner) = [j \in 1..Len(models[Core(t).v]) |->
                                     models[Core(t).v][j].name]
            THEN CitedLeaves(inner, Core(t).v, level)
            ELSE CompositeLeaf(inner, level)

\* C12: with citation enabled every leaf is a mapping with exactly the keys
\* value, comment and citations, citations a one-element list whose item has
\* the key page always and lines iff citation_level is "line"; with citation
\* disabled the output does not depend on citation_level.
C12_CitationTemplate ==
    /\ (Compiled /\ citation) => CitedLeaves(schema, "Top", citation_level)
    /\ (pc # "start" /\ ~IsError(plain)) =>
           /\ plain = pydantic_to_json_instance_schema("Top", "page", FALSE, 1)
           /\ plain = pydantic_to_json_instance_schema("Top", "line", FALSE, 1)

C12_Witness ==
    /\ pc = "compiled"
    /\ citation
    /\ citation_level = "page"
    /\ models.Top = <<Plain("f", ListOf(Atom("int")))>>
    /\ schema = DictV(<< <<"f", ListV(<<
           DictV(<< <<"value", StrV("<integer>")>>, <<"comment", StrV("")>>,
                    <<"citations",
                      ListV(<<DictV(<< <<"page", StrV("<integer>")>> >>)>>)>> >>)
           >>)>> >>)

\* the schema node of a model class with the comment entry of every
\* composite leaf removed
RECURSIVE WithoutLeafComments(_, _)
WithoutLeafComments(node, model) ==
    DictV([i \in 1..Len(node.v) |->
        LET t == models[model][i].annotation
            entry == node.v[i][2]
            inner == Element(entry)
            cleaned ==
                IF Core(t).k = "model" /\ IsDict(inner)
                    /\ Keys(inner) = [j \in 1..Len(models[Core(t).v]) |->
                                         models[Core(t).v][j].name]
                THEN WithoutLeafComments(inner, Core(t).v)
                ELSE IF IsDict(inner)
                THEN DictV(SelectSeq(inner.v, LAMBDA item : item[1] # "comment"))
                ELSE inner
        IN  <<node.v[i][1], IF IsList(entry) THEN ListV(<<cleaned>>) ELSE cleaned>>])

\* C13: the text of schema_to_json decodes to the schema with the comment
\* entry of every composite leaf removed and nothing else changed: every
\* field of every record is still there, whatever its name, and with
\* citation disabled the decoded text equals the schema.
C13_JsonDropsOnlyLeafComments ==
    pc = "dumped" =>
        /\ json_loads(json_str) = WithoutLeafComments(schema, "Top")
        /\ ~citation => json_loads(json_str) = schema

-----------------------------------------------------------------------------
(* What the claims say about enrich_citations_with_bboxes and               *)
(* strip_citations, node by node of the response tree.                      *)

\* an integer of the decoded response; as everywhere in Python, true and
\* false are the integers 1 and 0
IntegerValued(x) == x.k \in {"int", "bool"}
IntOf(x) == IF x.k = "bool" THEN (IF x.v THEN 1 ELSE 0) ELSE x.v

\* a mapping with an integer page and a list lines
CitationNode(obj) ==
    /\ IsDict(obj)
    /\ HasKey(obj, "page") /\ IntegerValued(Get(obj, "page"))
    /\ HasKey(obj, "lines") /\ IsList(Get(obj, "lines"))

PageInRange(obj, pages) ==
    IntOf(Get(obj, "page")) >= 0 /\ IntOf(Get(obj, "page")) < Len(pages)

Enriched == pc \in {"enriched", "stripped"} /\ ~IsError(enriched)

\* every citation node of the tree in whose page is out of range stands
\* unchanged at the same place of the tree out
RECURSIVE OutOfRangeKept(_, _, _)
OutOfRangeKept(in, out, pages) ==
    IF CitationNode(in)
    THEN PageInRange(in, pages) \/ out = in
    ELSE IF IsDict(in)
    THEN /\ IsDict(out) /\ Len(out.v) = Len(in.v)
         /\ \A i \in 1..Len(in.v) : OutOfRangeKept(in.v[i][2], out.v[i][2], pages)
    ELSE IF IsList(in)
    THEN /\ IsList(out) /\ Len(out.v) = Len(in.v)
         /\ \A i \in 1..Len(in.v) : OutOfRangeKept(in.v[i], out.v[i], pages)
    ELSE TRUE

\* the tree holds a citation node whose page is in range
RECURSIVE Resolvable(_, _)
Resolvable(obj, pages) ==
    IF CitationNode(obj) THEN PageInRange(obj, pages)
    ELSE IF IsDict(obj) THEN \E i \in 1..Len(obj.v) : Resolvable(obj.v[i][2], pages)
    ELSE IF IsList(obj) THEN \E i \in 1..Len(obj.v) : Resolvable(obj.v[i], pages)
    ELSE FALSE

\* C14: a citation node whose page is negative or not less than the number
\* of pages is returned unchanged, lines kept and no bboxes added; a
\* negative page never selects a page counted from the end.
C14_OutOfRangePageUnchanged ==
    /\ Enriched => OutOfRangeKept(response, enriched, document.content.v)
    /\ (pc \in {"enriched", "stripped"} /\ document.content.k = "pdf"
            /\ ~Resolvable(response, document.content.v)) => ~IsError(enriched)

C14_Witness ==
    /\ pc = "enriched"
    /\ Len(document.content.v) = MaxPages
    /\ Len(document.content.v[MaxPages].lines) > 0
    /\ response = DictV(<< <<"name", Wrapper(StrV("x"),
                      <<Citation(IntV(-1), ListV(<<IntV(0)>>))>>)>> >>)
    /\ enriched = response

\* lines holds integers only
IntegerLines(obj) ==
    \A i \in 1..Len(Get(obj, "lines").v) : IntegerValued(Get(obj, "lines").v[i])

\* the bounding boxes of the page's lines at the in-range indices of lines,
\* in the order listed
BboxesOf(lines, page) ==
    LET hits == SelectSeq(lines, LAMBDA x : IntOf(x) >= 0 /\ IntOf(x) < Len(page.lines)) IN
    ListV([i \in 1..Len(hits) |->
              LET b == page.lines[IntOf(hits[i]) + 1].bounding_box IN
              DictV(<< <<"x0", FloatV(b.x0)>>, <<"top", FloatV(b.top)>>,
                       <<"x1", FloatV(b.x1)>>, <<"bottom", FloatV(b.bottom)>> >>)])

\* out is the citation in resolved: no lines, bboxes as above, every other
\* key kept with its value
ResolvedAs(in, out, pages) ==
    LET page == pages[IntOf(Get(in, "page")) + 1] IN
    /\ IsDict(out)
    /\ ~HasKey(out, "lines")
    /\ HasKey(out, "bboxes")
    /\ Get(out, "bboxes") = BboxesOf(Get(in, "lines").v, page)
    /\ {out.v[i][1] : i \in 1..Len(out.v)}
           = ({in.v[i][1] : i \in 1..Len(in.v)} \ {"lines"}) \cup {"bboxes"}
    /\ \A i \in 1..Len(in.v) :
           in.v[i][1] \notin {"lines", "bboxes"} => Get(out, in.v[i][1]) = in.v[i][2]

\* every citation node of the tree in with an in-range page and integer
\* lines is resolved at the same place of the tree out
RECURSIVE InRangeResolved(_, _, _)
InRangeResolved(in, out, pages) ==
    IF CitationNode(in)
    THEN (PageInRange(in, pages) /\ IntegerLines(in)) => ResolvedAs(in, out, pages)
    ELSE IF IsDict(in)
    THEN /\ IsDict(out) /\ Len(out.v) = Len(in.v)
         /\ \A i \in 1..Len(in.v) : InRangeResolved(in.v[i][2], out.v[i][2], pages)
    ELSE IF IsList(in)
    THEN /\ IsList(out) /\ Len(out.v) = Len(in.v)
         /\ \A i \in 1..Len(in.v) : InRangeResolved(in.v[i], out.v[i], pages)
    ELSE TRUE

\* every citation node of the tree has integer lines
RECURSIVE AllIntegerLines(_)
AllIntegerLines(obj) ==
    IF CitationNode(obj) THEN IntegerLines(obj)
    ELSE IF IsDict(obj) THEN \A i \in 1..Len(obj.v) : AllIntegerLines(obj.v[i][2])
    ELSE IF IsList(obj) THEN \A i \in 1..Len(obj.v) : AllIntegerLines(obj.v[i])
    ELSE TRUE

\* C15: a citation node whose page p is in range comes back without lines,
\* with every other key and value kept, and with bboxes the bounding boxes
\* of page p's lines at the in-range indices of lines, in the order listed:
\* duplicates kept, negative and too-large indices dropped.
C15_InRangePageResolved ==
    /\ Enriched => InRangeResolved(response, enriched, document.content.v)
    /\ (pc \in {"enriched", "stripped"} /\ document.content.k = "pdf"
            /\ AllIntegerLines(response)) => ~IsError(enriched)

C15_Witness ==
    /\ pc = "enriched"
    /\ Len(document.content.v) > 0
    /\ Len(document.content.v[1].lines) = MaxLines
    /\ response = DictV(<< <<"name", Wrapper(StrV("x"),
                      <<Citation(IntV(0), ListV(<<IntV(-1), IntV(0)>>))>>)>> >>)
    /\ Len(Get(Get(Get(enriched, "name"), "citations").v[1], "bboxes").v) = 1

\* in the tree out every citation node of the tree in was taken for a
\* citation (returned as it was for a page out of range, else with bboxes
\* for lines) and everything else is as it was: the keys of every mapping in
\* their order, the length and order of every list, every scalar
RECURSIVE OnlyCitationsTouched(_, _, _)
OnlyCitationsTouched(in, out, pages) ==
    IF CitationNode(in)
    THEN IF PageInRange(in, pages)
         THEN IsDict(out) /\ ~HasKey(out, "lines") /\ HasKey(out, "bboxes")
         ELSE out = in
    ELSE IF IsDict(in)
    THEN /\ IsDict(out)
         /\ Keys(out) = Keys(in)
         /\ \A i \in 1..Len(in.v) :
                OnlyCitationsTouched(in.v[i][2], out.v[i][2], pages)
    ELSE IF IsList(in)
    THEN /\ IsList(out) /\ Len(out.v) = Len(in.v)
         /\ \A i \in 1..Len(in.v) : OnlyCitationsTouched(in.v[i], out.v[i], pages)
    ELSE out = in

\* C16: a mapping is taken for a citation node iff it has a key page with an
\* integer value and a key lines with a list value, wherever it stands in
\* the tree; outside citation nodes the output equals the input.
C16_OnlyCitationNodesChange ==
    Enriched => OnlyCitationsTouched(response, enriched, document.content.v)

C16_Witness ==
    /\ pc = "enriched"
    /\ Len(document.content.v) = MaxPages
    /\ Len(document.content.v[1].lines) > 0
    /\ IsDict(response) /\ Keys(response) = <<"items">>
    /\ ~IsError(enriched)
    /\ Keys(enriched) = <<"items">>
    /\ HasKey(Get(Get(enriched, "items").v[1], "citations").v[1], "bboxes")
    /\ HasKey(Get(Get(enriched, "items").v[1], "citations").v[2], "lines")

\* out is the tree in with every mapping of exactly the two keys value and
\* citations replaced by its value member, and everything else as it was
RECURSIVE WrappersReplaced(_, _)
WrappersReplaced(in, out) ==
    IF IsDict(in) /\ Len(in.v) = 2
        /\ {in.v[1][1], in.v[2][1]} = {"value", "citations"}
    THEN out = Get(in, "value")
    ELSE IF IsDict(in)
    THEN /\ IsDict(out)
         /\ Keys(out) = Keys(in)
         /\ \A i \in 1..Len(in.v) : WrappersReplaced(in.v[i][2], out.v[i][2])
    ELSE IF IsList(in)
    THEN /\ IsList(out) /\ Len(out.v) = Len(in.v)
         /\ \A i \in 1..Len(in.v) : WrappersReplaced(in.v[i], out.v[i])
    ELSE out = in

\* C17: strip_citations replaces a mapping by its value member iff the
\* mapping has exactly the two keys value and citations; a mapping with a
\* further key or with only one of the two stays a mapping and is recursed
\* into, lists are mapped element by element, scalars are returned as they
\* are.
C17_StripsExactWrappers ==
    pc = "stripped" /\ document.content.k = "pdf" =>
        WrappersReplaced(enriched, stripped)

C17_Witness ==
    /\ pc = "stripped"
    /\ document.content.k = "pdf"
    /\ document.content.v = <<>>
    /\ IsDict(enriched) /\ Keys(enriched) = <<"f">>
    /\ Keys(Get(enriched, "f")) = <<"value", "comment", "citations">>
    /\ stripped = enriched

\* C18: with document.content None, enrich_citations_with_bboxes raises
\* ValueError before it visits the response: for every response, also one
\* without a citation and one whose traversal would raise.
C18_NoContentRaisesFirst ==
    (pc \in {"enriched", "stripped"} /\ document.content.k = "none") =>
        enriched = Error("ValueError")

C18_Witness ==
    /\ pc = "enriched"
    /\ document.content.k = "none"
    /\ response = DictV(<< <<"name", StrV("x")>> >>)
    /\ enriched = Error("ValueError")

-----------------------------------------------------------------------------
(* The formatter's text against the enrichment of the same call.            *)

\* the text txt shows, inside the tag <page number=p>, the line t prefixed
\* by "i: "
Shown(txt, p, i, t) ==
    \E j \in 1..Len(txt) :
        /\ j + 4 * i + 7 <= Len(txt)
        /\ SubSeq(txt, j, j + 3) = <<"<page number=", IntToStr(p), ">", NL>>
        /\ SubSeq(txt, j + 4 * i + 4, j + 4 * i + 7) = <<IntToStr(i), ": ", t, NL>>
        /\ \A k \in (j + 4)..(j + 4 * i + 3) : txt[k] # "</page>"

\* every line of the document is shown in content_text under its page and
\* line index, and a citation of these two indices resolves to its box
SameIndices ==
    (content_text # <<>> /\ document.include_citations) =>
        /\ document.content.k = "pdf"
        /\ \A p \in 1..Len(document.content.v) :
               \A i \in 1..Len(document.content.v[p].lines) :
                   LET line == document.content.v[p].lines[i] IN
                   /\ Shown(content_text, p - 1, i - 1, line.text)
                   /\ enrich_citations_with_bboxes(
                          Citation(IntV(p - 1), ListV(<<IntV(i - 1)>>)), document)
                        = DictV(<< <<"page", IntV(p - 1)>>,
                                   <<"bboxes",
                                     ListV(<<model_dump(line.bounding_box)>>)>> >>)

\* C19: after format_document_for_llm or extract has made the numbered text,
\* each line of the document of that call stands in the text under the page
\* and line index that enrich_citations_with_bboxes resolves to the line's
\* bounding box, also when page_numbers selected some of the pages.
C19_SameIndices == pc \in {"format", "extract"} => SameIndices

C19_Witness ==
    /\ pc = "extract"
    /\ page_numbers = ListV(<<1>>)
    /\ outcome = Returned
    /\ document.content.k = "pdf"
    /\ Len(document.content.v) = 1
    /\ document.content.v[1].lines[1] = ParsedLine(1, 0)
    /\ document.include_citations
    /\ Shown(content_text, 0, 0, ParsedLine(1, 0).text)

-----------------------------------------------------------------------------
(* Multi-pass documents.                                                    *)

\* the call ended in cls, made no client request and left no text, decoded
\* response, metadata or result
Refused(cls) ==
    /\ outcome = Error(cls)
    /\ calls.llm = 0
    /\ content_text = <<>>
    /\ response = Unset /\ enriched = Unset /\ stripped = Unset

\* the formatter call ended in cls and returned no text
FormatRefused(cls) == outcome = Error(cls) /\ content_text = <<>>

\* C20 as stated: on a document in multi_pass mode, extractor.extract and
\* format_document_for_llm both end in NotImplementedError.
C20_MultiPassNotImplemented ==
    document.extraction_mode = "multi_pass" =>
        /\ pc = "extract" => Refused("NotImplementedError")
        /\ pc = "format" => FormatRefused("NotImplementedError")

\* C20: on a document in multi_pass mode, extractor.extract ends in
\* NotImplementedError without a client request, text, result or metadata;
\* format_document_for_llm returns no text and ends in NotImplementedError
\* when the document has content, in ValueError when its content is None.
C20_MultiPassRefused ==
    document.extraction_mode = "multi_pass" =>
        /\ pc = "extract" => Refused("NotImplementedError")
        /\ pc = "format" =>
               FormatRefused(IF document.content.k = "none"
                             THEN "ValueError" ELSE "NotImplementedError")

C20_Witness ==
    /\ pc = "extract"
    /\ document.extraction_mode = "multi_pass"
    /\ document.content.k = "pdf"
    /\ Refused("NotImplementedError")
    /\ page_numbers # Unset

-----------------------------------------------------------------------------
(* Rejected calls.                                                          *)

\* C21: extract ends in ValueError, with no parser, formatter or client
\* invocation and no result, for a config with a key outside the three, a
\* missing response_format or a response_format that is no model class;
\* format_document_for_llm ends in ValueError when content is None or the
\* page list is empty.
C21_PreconditionsRaiseValueError ==
    [][/\ pc' = "reject" =>
              Refused("ValueError")' /\ calls'.parse = calls.parse
       /\ (document.content.k = "none" \/ document.content.v = <<>>)
              /\ pc' = "format" =>
              FormatRefused("ValueError")']_vars

-----------------------------------------------------------------------------
(* Client requests of one extract call.                                     *)

\* C22: one generate_text call makes at most MaxAttempts client requests and
\* none after the first that returns; extract makes one generate_text call,
\* and a failure of decoding, enrichment, stripping or result construction
\* makes no further request.
C22_BoundedAttempts ==
    /\ calls.llm <= MaxAttempts
    /\ calls.llm = 0 => calls.failed = 0
    /\ calls.llm > 0 =>
           calls.failed = IF calls.llm = MaxAttempts /\ calls.failed = MaxAttempts
                          THEN MaxAttempts ELSE calls.llm - 1

C22_Witness ==
    /\ calls.failed = 1
    /\ calls.llm = 2
    /\ outcome = Error("OutputParserException")

-----------------------------------------------------------------------------
(* What one extract call returns.                                           *)

\* the last operation was an extract call whose LLM text was decoded
Decoded == pc = "extract" /\ response # Unset

\* C23: with citations included the metadata of an extract call is the whole
\* decoded response enriched, wrappers still in it, and the typed result is
\* built from that tree stripped; with citations not included nothing is
\* enriched or stripped, the metadata is None and the result is built from
\* the decoded response.
C23_EnrichThenStrip ==
    Decoded =>
        IF document.include_citations
        THEN LET whole == enrich_citations_with_bboxes(response, document) IN
             IF IsError(whole)
             THEN outcome = whole /\ enriched = Unset /\ stripped = Unset
             ELSE /\ enriched = whole
                  /\ stripped = strip_citations(whole)
                  /\ outcome = Returned => Validates(stripped, Model("Top"))
                  /\ WrappersReplaced(enriched, stripped)
        ELSE /\ enriched = Null
             /\ stripped = response
             /\ outcome = Returned => Validates(response, Model("Top"))

C23_Witness ==
    /\ Decoded
    /\ outcome = Returned
    /\ document.include_citations
    /\ enriched # response
    /\ stripped # enriched
    /\ IsDict(Get(enriched, "name"))
    /\ HasKey(Get(enriched, "name"), "citations")

-----------------------------------------------------------------------------
(* Purity of enrichment and stripping.                                      *)

-----------------------------------------------------------------------------
(* Parser invocations.                                                      *)

-----------------------------------------------------------------------------
(* Page selection over several calls.                                       *)

\* the line texts a formatted text shows, in order
LineTexts(txt) ==
    SelectSeq(txt, LAMBDA t :
        \E p \in 1..Len(parsed) : \E i \in 1..Len(parsed[p].lines) :
            t = parsed[p].lines[i].text)

\* the line texts of pages, in order
RECURSIVE TextsOf(_)
TextsOf(pages) ==
    IF pages = <<>> THEN <<>>
    ELSE [i \in 1..Len(pages[1].lines) |-> pages[1].lines[i].text]
             \o TextsOf(Tail(pages))

\* the page indices a page_numbers argument holds
Selection(pn) == IF pn.k = "list" THEN {pn.v[i] : i \in 1..Len(pn.v)} ELSE {}

\* C26: whatever page_numbers earlier calls used, format_document_for_llm on
\* a parsed single-pass document with page_numbers = S returns the text of
\* exactly the pages whose index in the parsed document is in S when S holds
\* a valid index, and of all parsed pages when S is absent or empty.
C26_SelectsFromParsedPages ==
    (pc = "format" /\ document.content.k = "pdf" /\ parsed # <<>>
         /\ document.extraction_mode = "single_pass") =>
        LET S == Selection(page_numbers) IN
        (S = {} \/ S \cap (0..(Len(parsed) - 1)) # {}) =>
            /\ outcome = Returned
            /\ LineTexts(content_text)
                   = TextsOf(IF S = {} THEN parsed ELSE KeepPages(parsed, 0, S))

\* C27: an extract call that the processor rejects (a key outside the three,
\* a response_format that is missing or no model class, an extraction_mode
\* value that is no mode) leaves document.include_citations,
\* document.extraction_mode and document.content as they were.
C27_RejectedCallKeepsDocument ==
    [][pc' = "reject" => document' = document]_vars

-----------------------------------------------------------------------------
(* Enrichment applied again, and stripping across documents.                *)

\* C28: enrich_citations_with_bboxes is idempotent: enriching the enriched
\* tree against the same document returns it unchanged.
C28_EnrichIdempotent ==
    (pc \in {"enriched", "stripped"} /\ ~IsError(enriched)) =>
        enrich_citations_with_bboxes(enriched, document) = enriched

\* C29: the stripped tree does not depend on the document: for every
\* response and every two parsed documents, stripping what enrichment
\* returns gives the same as stripping the response itself.
C29_PlainValuesIgnoreGeometry ==
    (pc \in {"enriched", "stripped"} /\ document.content.k = "pdf") =>
        \A lc \in LineCounts :
            LET d2 == [document EXCEPT !.content = PDF(ParsedPages(lc))]
                other == enrich_citations_with_bboxes(response, d2)
            IN  /\ ~IsError(enriched)
                /\ ~IsError(other)
                /\ strip_citations(enriched) = strip_citations(response)
                /\ strip_citations(other) = strip_citations(response)

-----------------------------------------------------------------------------
(* The citation decisions of one extract call.                              *)

\* the instance schema has a value/citations wrapper
RECURSIVE Wrapped(_)
Wrapped(obj) ==
    IF IsDict(obj)
    THEN (HasKey(obj, "value") /\ HasKey(obj, "citations"))
             \/ \E i \in 1..Len(obj.v) : Wrapped(obj.v[i][2])
    ELSE IsList(obj) /\ \E i \in 1..Len(obj.v) : Wrapped(obj.v[i])

\* the text has a line prefixed by its index
Numbered(txt) ==
    \E j \in 1..(Len(txt) - 2) :
        /\ txt[j + 1] = ": "
        /\ \E i \in 0..MaxLines : txt[j] = IntToStr(i)
        /\ LineTexts(<<txt[j + 2]>>) # <<>>

\* C30: in one single-pass extract call the instance schema has
\* value/citations wrappers iff the formatted text has line-number prefixes
\* iff the decoded response is enriched and stripped (the metadata is not
\* None), and all three iff document.include_citations.
C30_CitationDecisionsAgree ==
    (pc = "extract" /\ content_text # <<>>) =>
        /\ Wrapped(schema) <=> document.include_citations
        /\ Numbered(content_text) <=> document.include_citations
        /\ enriched # Unset => (enriched # Null <=> document.include_citations)

C30_Witness ==
    /\ pc = "extract"
    /\ outcome = Returned
    /\ ~document.include_citations
    /\ content_text # <<>>
    /\ ~Wrapped(schema)
    /\ ~Numbered(content_text)
    /\ enriched = Null
    /\ stripped = response

====
